---- MODULE Spec2Model ----
(***************************************************************************)
(* A model of safebuffer.ResizableBuffer (src/safebuffer.go).              *)
(*                                                                         *)
(* A Go byte slice is a window (store, base, len) onto a backing array.    *)
(* The backing arrays live in `heap`; make() takes an array nothing refers  *)
(* to, so two slices alias exactly when they name the same store.          *)
(* `bufs[1]` is the buffer the caller constructed and `bufs[2]`, when      *)
(* there is one, the sub-buffer the caller last took from it.  A handle's  *)
(* (store, base, len) is its field `buffer` and `offset` is the cursor.    *)
(* Two fields are notes the model keeps on a sub-buffer: `start`, the      *)
(* parent's cursor when it was taken, and `parentReset`, whether the       *)
(* parent was Reset since.                                                 *)
(***************************************************************************)
EXTENDS Integers, Sequences, FiniteSets, TLC

\* ---------------------------------------------------------------- bounds
MaxCap == 3        \* largest len(b.buffer) a buffer may grow to
MaxSubCap == 2     \* the same, while the caller uses a sub-buffer
MaxEncCap == 8     \* the same, while the caller writes with the encoders

\* ------------------------------------------------------- program constants
CR == 13
LF == 10

\* ------------------------------------------------------------ input sets
Vals == {0, 1}                                \* byte values the callers write
Payloads == {<<>>, <<1>>, <<0, 1>>}           \* byte slices passed to copies
Strings == {<<>>, <<1, 0>>}                   \* strings passed to copies
Supplied == {<<>>, <<1>>, <<0, 0, 0>>}        \* slices given to the constructor
U16Vals == {1}                                \* values passed to the encoders
\* Values passed to the encoders where their bytes are looked at.  A uint32
\* or uint64 is written as its 16-bit limbs, the least significant first:
\* 0x01020304 is <<0x0304, 0x0102>> = <<772, 258>>.
Enc16Vals == {258, 65535}
U32Vals == {<<772, 258>>, <<65535, 65535>>}
U64Vals == {<<1800, 1286, 772, 258>>, <<65535, 65535, 65535, 65535>>}
\* Signed values passed to the encoders, written as 16-bit limbs too, the most
\* significant limb signed: -1 is <<65535, 65535, 65535, -1>> as an int64 and
\* the least int32 is <<0, -32768>>.
Int16Vals == {-2}
Int32Vals == {<<0, -32768>>}
Int64Vals == {<<65535, 65535, 65535, -1>>}
SubLens == {-1, 0, 1, 2}                      \* arguments of SubBuffer
ReadSizes == {-1, 0, 2}                       \* maxSize arguments of ReadInto
\* The error value nil, and the io.Readers the callers read from: what a
\* reader has to give, and the error its Read returns with it.
NilErr == "nil"
Sources ==
    {[data |-> <<>>, err |-> NilErr], [data |-> <<>>, err |-> "test error"],
     [data |-> <<1>>, err |-> "EOF"], [data |-> <<1, 0, 1>>, err |-> NilErr]}

\* Backing arrays that can be live at once: one per handle, one for the held
\* slice, one being allocated.
Stores == 1..4

VARIABLES heap, bufs, view, last, abs, race

vars == <<heap, bufs, view, last, abs, race>>

\* ------------------------------------------------------------ sequences
Min(a, b) == IF a < b THEN a ELSE b

Zeros(n) == [i \in 1..n |-> 0]

\* Go's builtin copy(dst[at:], src): copies min(len(dst)-at, len(src)) bytes
\* and never writes past the end of dst.  The source is read before the
\* destination is written (memmove), so dst and src may be the same slice.
CopyAt(dst, at, src) ==
    [i \in 1..Len(dst) |->
        IF i > at /\ i - at <= Len(src) THEN src[i - at] ELSE dst[i]]

\* dst[at] = v, an indexed store.
SetAt(dst, at, v) == [i \in 1..Len(dst) |-> IF i = at + 1 THEN v ELSE dst[i]]

\* ---------------------------------------------------------------- slices
\* The bytes of the slice (store, base, len) in heap H.
SliceOf(H, store, base, len) == SubSeq(H[store], base + 1, base + len)

\* b.buffer
Buffer(H, b) == SliceOf(H, b.store, b.base, b.len)

\* Heap H after the bytes of b.buffer were set to nb (Len(nb) = b.len).
WithBuffer(H, b, nb) ==
    [H EXCEPT ![b.store] =
        [i \in 1..Len(@) |->
            IF i > b.base /\ i <= b.base + b.len THEN nb[i - b.base] ELSE @[i]]]

\* The result of an operation on one handle: the heap and the handle after.
Res(H, b) == [heap |-> H, buf |-> b]

\* ------------------------------------------------------------ the program
\* The nil slice has no backing array; []byte{} is an empty slice that is
\* not nil, here the empty array 1 (no caller's array is there when the
\* caller passed nil).
NilStore == 0
EmptyStore == 1

\* Mutant: the bytes supplied count as content already written.
NewResizableBufferFilled(store, len) ==
    [store |-> IF store = NilStore THEN EmptyStore ELSE store,
     base |-> 0, len |-> len, offset |-> len,
     start |-> 0, parentReset |-> FALSE]

\* NewResizableBuffer(b): the caller's slice itself becomes the storage; nil
\* becomes an empty slice.  The cursor starts at 0.
NewResizableBuffer(store, len) ==
    [store |-> IF store = NilStore THEN EmptyStore ELSE store,
     base |-> 0, len |-> len, offset |-> 0,
     start |-> 0, parentReset |-> FALSE]

\* Mutant: geometric growth, as Go's append does.
grownLenDouble(len, n) == 2 * (n + len)

\* The size of the store ensureCapacity and prependStart allocate.
grownLen(len, n) == n + len

\* Mutant: a buffer with exactly n bytes to spare is grown too.
needsGrowWhenExact(b, n) == b.len - b.offset <= n

\* Mutant: the capacity is compared without the cursor.
needsGrowNoOffset(b, n) == b.len < n

\* The condition under which ensureCapacity and prependStart allocate.
needsGrow(b, n) == b.len - b.offset < n

\* b.buffer = buf, a slice that is the whole of the fresh backing array f.
Realloc(H, b, f, buf) ==
    Res([H EXCEPT ![f] = buf], [b EXCEPT !.store = f, !.base = 0, !.len = Len(buf)])

\* Mutant: the old content is not copied into the new array.
ensureCapacityNoCopy(H, b, n, f) ==
    IF needsGrow(b, n)
    THEN Realloc(H, b, f, Zeros(grownLen(b.len, n)))
    ELSE Res(H, b)

\* Mutant: as Go's append does, the buffer is extended in place when the
\* array it is a window of has n more bytes behind it.
ensureCapacityInArray(H, b, n, f) ==
    IF needsGrow(b, n)
    THEN IF b.base + b.len + n <= Len(H[b.store])
         THEN Res(H, [b EXCEPT !.len = @ + n])
         ELSE Realloc(H, b, f, CopyAt(Zeros(grownLen(b.len, n)), 0, Buffer(H, b)))
    ELSE Res(H, b)

\* ensureCapacity(n); f is the array make() returns if it is called.
ensureCapacity(H, b, n, f) ==
    IF needsGrow(b, n)
    THEN Realloc(H, b, f, CopyAt(Zeros(grownLen(b.len, n)), 0, Buffer(H, b)))
    ELSE Res(H, b)

\* The append primitive shared by CopyBytes and CopyString:
\* ensureCapacity(len(p)); copy(b.buffer[b.offset:], p); b.offset += len(p)
appendCopy(H, b, p, f) ==
    LET e == ensureCapacity(H, b, Len(p), f)
        nb == CopyAt(Buffer(e.heap, e.buf), e.buf.offset, p)
    IN  Res(WithBuffer(e.heap, e.buf, nb), [e.buf EXCEPT !.offset = @ + Len(p)])

CopyBytes(H, b, p, f) == appendCopy(H, b, p, f)

CopyString(H, b, p, f) == appendCopy(H, b, p, f)

\* CopyBytes(p) where p is the slice v = (store, base, len) of an array in the
\* heap, which may be the buffer's own: copy reads the bytes v holds after
\* ensureCapacity.
CopyBytesOf(H, b, v, f) ==
    LET e == ensureCapacity(H, b, v.len, f)
        nb == CopyAt(Buffer(e.heap, e.buf), e.buf.offset,
                     SliceOf(e.heap, v.store, v.base, v.len))
    IN  Res(WithBuffer(e.heap, e.buf, nb), [e.buf EXCEPT !.offset = @ + v.len])

\* Byte(bt)
Byte(H, b, bt, f) ==
    LET e == ensureCapacity(H, b, 1, f)
        nb == SetAt(Buffer(e.heap, e.buf), e.buf.offset, bt)
    IN  Res(WithBuffer(e.heap, e.buf, nb), [e.buf EXCEPT !.offset = @ + 1])

\* Mutant: the two bytes are written in the order LF, CR.
CRLFSwapped(H, b, f) ==
    LET e == ensureCapacity(H, b, 2, f)
        nb == SetAt(SetAt(Buffer(e.heap, e.buf), e.buf.offset, LF),
                    e.buf.offset + 1, CR)
    IN  Res(WithBuffer(e.heap, e.buf, nb), [e.buf EXCEPT !.offset = @ + 2])

\* CRLF()
CRLF(H, b, f) ==
    LET e == ensureCapacity(H, b, 2, f)
        nb == SetAt(SetAt(Buffer(e.heap, e.buf), e.buf.offset, CR),
                    e.buf.offset + 1, LF)
    IN  Res(WithBuffer(e.heap, e.buf, nb), [e.buf EXCEPT !.offset = @ + 2])

\* binary.LittleEndian.PutUint16 / binary.BigEndian.PutUint16: the two bytes.
PutUint16(v, littleEndian) ==
    IF littleEndian THEN <<v % 256, (v \div 256) % 256>>
    ELSE <<(v \div 256) % 256, v % 256>>

\* Uint16(v, littleEndian)
Uint16(H, b, v, littleEndian, f) ==
    LET e == ensureCapacity(H, b, 2, f)
        w == PutUint16(v, littleEndian)
        nb == SetAt(SetAt(Buffer(e.heap, e.buf), e.buf.offset, w[1]),
                    e.buf.offset + 1, w[2])
    IN  Res(WithBuffer(e.heap, e.buf, nb), [e.buf EXCEPT !.offset = @ + 2])

\* byte(v >> (8*i)) of the value whose 16-bit limbs are v.
ByteOf(v, i) == (v[(i \div 2) + 1] \div (IF i % 2 = 0 THEN 1 ELSE 256)) % 256

\* Mutant: the two byte orders are taken for each other.
PutUintSwapped(w, v, littleEndian) ==
    IF littleEndian THEN [i \in 1..w |-> ByteOf(v, w - i)]
    ELSE [i \in 1..w |-> ByteOf(v, i - 1)]

\* binary.LittleEndian.PutUint32/64: b[i] = byte(v >> (8*i));
\* binary.BigEndian.PutUint32/64: b[i] = byte(v >> (8*(w-1-i))).
PutUint(w, v, littleEndian) ==
    IF littleEndian THEN [i \in 1..w |-> ByteOf(v, i - 1)]
    ELSE [i \in 1..w |-> ByteOf(v, w - i)]

PutUint32(v, littleEndian) == PutUint(4, v, littleEndian)

PutUint64(v, littleEndian) == PutUint(8, v, littleEndian)

\* Uint32(v, littleEndian)
Uint32(H, b, v, littleEndian, f) ==
    LET e == ensureCapacity(H, b, 4, f)
        nb == CopyAt(Buffer(e.heap, e.buf), e.buf.offset, PutUint32(v, littleEndian))
    IN  Res(WithBuffer(e.heap, e.buf, nb), [e.buf EXCEPT !.offset = @ + 4])

\* Uint64(v, littleEndian)
Uint64(H, b, v, littleEndian, f) ==
    LET e == ensureCapacity(H, b, 8, f)
        nb == CopyAt(Buffer(e.heap, e.buf), e.buf.offset, PutUint64(v, littleEndian))
    IN  Res(WithBuffer(e.heap, e.buf, nb), [e.buf EXCEPT !.offset = @ + 8])

\* Mutant: the magnitude of a negative value is encoded (a value translation).
ToUnsignedAbs(v) ==
    IF v[Len(v)] < 0
    THEN [j \in 1..Len(v) |->
            IF j = Len(v) THEN -v[j] - (IF \A i \in 1..(j - 1) : v[i] = 0 THEN 0 ELSE 1)
            ELSE IF \A i \in 1..(j - 1) : v[i] = 0 THEN (65536 - v[j]) % 65536
            ELSE 65535 - v[j]]
    ELSE v

\* The conversions uint16(v), uint32(v), uint64(v) of a signed v of the same
\* width: the value modulo 2^w, which leaves the low limbs as they are.
ToUnsigned(v) == [v EXCEPT ![Len(v)] = @ % 65536]

\* Int16(v, littleEndian)
Int16(H, b, v, littleEndian, f) ==
    Uint16(H, b, ToUnsigned(<<v>>)[1], littleEndian, f)

\* Int32(v, littleEndian)
Int32(H, b, v, littleEndian, f) == Uint32(H, b, ToUnsigned(v), littleEndian, f)

\* Int64(v, littleEndian)
Int64(H, b, v, littleEndian, f) == Uint64(H, b, ToUnsigned(v), littleEndian, f)

\* Bytes(): the slice b.buffer[:b.offset]
Bytes(H, b) == SliceOf(H, b.store, b.base, b.offset)

\* Mutant: a byte-by-byte forward loop, which reads bytes it has already
\* overwritten when source and destination overlap.
shiftInPlaceForward(buf, n) ==
    [i \in 1..Len(buf) |-> IF n = 0 THEN buf[i] ELSE buf[((i - 1) % n) + 1]]

\* The in-place shift of prependStart: copy(b.buffer[n:], b.buffer)
shiftInPlace(buf, n) == CopyAt(buf, n, buf)

\* Mutant: the old content is copied to the front of the new array.
shiftGrownAtZero(buf, n) == CopyAt(Zeros(grownLen(Len(buf), n)), 0, buf)

\* The growth path of prependStart: make(n+len); copy(buf[n:], b.buffer)
shiftGrown(buf, n) == CopyAt(Zeros(grownLen(Len(buf), n)), n, buf)

\* Mutant: only the bytes written so far, b.buffer[:b.offset], are moved.
prependStartUsedOnly(H, b, n, w, f) ==
    LET e == IF needsGrow(b, n)
             THEN Realloc(H, b, f,
                          CopyAt(Zeros(grownLen(b.len, n)), n, Bytes(H, b)))
             ELSE Res(WithBuffer(H, b, CopyAt(Buffer(H, b), n, Bytes(H, b))), b)
        nb == CopyAt(Buffer(e.heap, e.buf), 0, w)
    IN  Res(WithBuffer(e.heap, e.buf, nb), [e.buf EXCEPT !.offset = @ + n])

\* prependStart up to the call of f: room for n bytes is made at the front.
prependShift(H, b, n, f) ==
    IF needsGrow(b, n)
    THEN Realloc(H, b, f, shiftGrown(Buffer(H, b), n))
    ELSE Res(WithBuffer(H, b, shiftInPlace(Buffer(H, b), n)), b)

\* prependStart(n, f), where f writes the n bytes w at the front of b.buffer.
prependStart(H, b, n, w, f) ==
    LET e == prependShift(H, b, n, f)
        nb == CopyAt(Buffer(e.heap, e.buf), 0, w)
    IN  Res(WithBuffer(e.heap, e.buf, nb), [e.buf EXCEPT !.offset = @ + n])

\* PrependBytes(v) where v is the slice (store, base, len) of an array in the
\* heap, which may be the buffer's own: f runs copy(b, v) after the room was
\* made, and reads the bytes v holds then.
PrependBytesOf(H, b, v, f) ==
    LET e == prependShift(H, b, v.len, f)
        nb == CopyAt(Buffer(e.heap, e.buf), 0,
                     SliceOf(e.heap, v.store, v.base, v.len))
    IN  Res(WithBuffer(e.heap, e.buf, nb), [e.buf EXCEPT !.offset = @ + v.len])

PrependBytes(H, b, v, f) == prependStart(H, b, Len(v), v, f)

PrependByte(H, b, v, f) == prependStart(H, b, 1, <<v>>, f)

PrependString(H, b, v, f) == prependStart(H, b, Len(v), v, f)

\* Mutant: the prepend encoder takes the byte orders for each other.
PrependUint16Swapped(H, b, v, littleEndian, f) ==
    prependStart(H, b, 2, PutUint16(v, ~littleEndian), f)

PrependUint16(H, b, v, littleEndian, f) ==
    prependStart(H, b, 2, PutUint16(v, littleEndian), f)

PrependUint32(H, b, v, littleEndian, f) ==
    prependStart(H, b, 4, PutUint32(v, littleEndian), f)

PrependUint64(H, b, v, littleEndian, f) ==
    prependStart(H, b, 8, PutUint64(v, littleEndian), f)

\* Mutant: the whole buffer is cleared, not only the bytes written.
ResetClearAll(H, b, zeroOut) ==
    LET nb == IF zeroOut THEN Zeros(b.len) ELSE Buffer(H, b)
    IN  Res(WithBuffer(H, b, nb), [b EXCEPT !.offset = 0])

\* Mutant: the buffer is cut down to the bytes written, b.buffer[:b.offset].
ResetTruncate(H, b, zeroOut) ==
    LET nb == IF zeroOut THEN CopyAt(Buffer(H, b), 0, Zeros(b.offset))
              ELSE Buffer(H, b)
    IN  Res(WithBuffer(H, b, nb), [b EXCEPT !.offset = 0, !.len = b.offset])

\* Mutant: the first byte written is left in place.
ResetKeepFirst(H, b, zeroOut) ==
    LET nb == IF zeroOut
              THEN [i \in 1..b.len |->
                      IF 1 < i /\ i <= b.offset THEN 0 ELSE Buffer(H, b)[i]]
              ELSE Buffer(H, b)
    IN  Res(WithBuffer(H, b, nb), [b EXCEPT !.offset = 0])

\* Reset(zeroOut)
Reset(H, b, zeroOut) ==
    LET nb == IF zeroOut THEN CopyAt(Buffer(H, b), 0, Zeros(b.offset))
              ELSE Buffer(H, b)
    IN  Res(WithBuffer(H, b, nb), [b EXCEPT !.offset = 0])

\* Mutant: without a maxSize the bound is the whole capacity.
readBoundWhole(b, maxSize) == IF maxSize > 0 THEN maxSize ELSE b.len

\* The bound ReadInto passes to the source: maxSize, or the spare capacity.
readBound(b, maxSize) == IF maxSize > 0 THEN maxSize ELSE b.len - b.offset

\* n, err := r.Read(p) with len(p) = room: the reader src fills p with the
\* first min(len(p), len(data)) bytes it has and returns its error.
Read(src, room) ==
    [n |-> Min(room, Len(src.data)),
     bytes |-> SubSeq(src.data, 1, Min(room, Len(src.data))),
     err |-> src.err]

\* The rest of ReadInto once the capacity is there (e) and Read, asked for m
\* bytes, has returned rd: the bytes read lie at the cursor, chunk is the
\* slice of them and the cursor moves past them.
readFill(e, m, rd) ==
    [heap |-> WithBuffer(e.heap, e.buf,
                         CopyAt(Buffer(e.heap, e.buf), e.buf.offset, rd.bytes)),
     buf |-> [e.buf EXCEPT !.offset = @ + rd.n],
     n |-> rd.n,
     chunk |-> [store |-> e.buf.store, base |-> e.buf.base + e.buf.offset,
                len |-> rd.n],
     err |-> rd.err,
     asked |-> <<m>>]

\* Mutant: the buffer is not grown for maxSize bytes.
ReadIntoNoGrow(H, b, maxSize, src, f) ==
    readFill(Res(H, b), readBound(b, maxSize), Read(src, readBound(b, maxSize)))

\* Mutant: a read that reported an error is tried once more.
ReadIntoRetry(H, b, maxSize, src, f) ==
    [readFill(IF maxSize > 0 THEN ensureCapacity(H, b, maxSize, f) ELSE Res(H, b),
              readBound(b, maxSize), Read(src, readBound(b, maxSize)))
        EXCEPT !.asked = IF src.err = NilErr THEN @ ELSE @ \o @]

\* ReadInto(r, maxSize): the buffer after, the slice chunk returned, the error
\* returned and the lengths of the slices r.Read was called with.
ReadInto(H, b, maxSize, src, f) ==
    readFill(IF maxSize > 0 THEN ensureCapacity(H, b, maxSize, f) ELSE Res(H, b),
             readBound(b, maxSize), Read(src, readBound(b, maxSize)))

\* Mutant: a negative length means the whole capacity, the cursor forgotten.
subLengthWhole(b, length) == IF length < 0 THEN b.len ELSE length

\* The length SubBuffer uses: a negative one means the spare capacity.
subLength(b, length) == IF length < 0 THEN b.len - b.offset ELSE length

\* Mutant: the window starts at the front of the parent's buffer.
subWindowAtZero(b, length) ==
    [store |-> b.store, base |-> b.base, len |-> length, offset |-> 0,
     start |-> 0, parentReset |-> FALSE]

\* The handle SubBuffer returns: the window b.buffer[b.offset : b.offset+length]
subWindow(b, length) ==
    [store |-> b.store, base |-> b.base + b.offset, len |-> length, offset |-> 0,
     start |-> 0, parentReset |-> FALSE]

\* Mutant: the parent's cursor is not advanced past the window.
SubBufferNoAdvance(H, b, length, f) ==
    LET l == subLength(b, length)
        e == ensureCapacity(H, b, l, f)
    IN  [heap |-> e.heap, buf |-> e.buf, sub |-> subWindow(e.buf, l)]

\* SubBuffer(length): the parent after, and the handle returned.
SubBuffer(H, b, length, f) ==
    LET l == subLength(b, length)
        e == ensureCapacity(H, b, l, f)
    IN  [heap |-> e.heap,
         buf |-> [e.buf EXCEPT !.offset = @ + l],
         sub |-> subWindow(e.buf, l)]


\* ------------------------------------------------------------ bookkeeping
AppendOps ==
    {"CopyBytes", "CopyString", "Byte", "CRLF", "Uint16", "Uint32", "Uint64",
     "Int16", "Int32", "Int64"}
PrependOps == {"PrependBytes", "PrependByte", "PrependString", "PrependUint16"}

\* The slice the caller holds from Bytes() or ReadInto(): the handle it came
\* from and the window it is.  NoView: the caller holds none.
NoView == [buf |-> 0, store |-> 0, base |-> 0, len |-> 0]

\* What the last call was: the operation, the handle it was called on, the
\* bytes it was given to write (or the source produced, or, for Reset, the
\* content it dropped), its size argument (for Reset 1 if zeroOut, else 0),
\* whether it allocated, the error the source reported.  Calls are logged
\* while bufs[1] is the only handle the caller uses.
Unlogged == [op |-> "", buf |-> 0, p |-> <<>>, n |-> 0, grew |-> FALSE, err |-> NilErr]

Last(op, h, p, n, grew, err) ==
    IF Len(bufs) = 1
    THEN [op |-> op, buf |-> h, p |-> p, n |-> n, grew |-> grew, err |-> err]
    ELSE Unlogged

Handles == DOMAIN bufs

InBounds(r) == r.buf.len <= IF Len(bufs) = 1 THEN MaxCap ELSE MaxSubCap

Referenced(B, v, s) == v.store = s \/ \E h \in DOMAIN B : B[h].store = s

\* The array the next make() returns: one nothing refers to.
NewStore ==
    CHOOSE s \in Stores :
        /\ ~Referenced(bufs, view, s)
        /\ \A t \in Stores : t < s => Referenced(bufs, view, t)

\* Go's garbage collector: a backing array no handle and no held slice refers
\* to is gone.
Collect(H, B, v) == [s \in Stores |-> IF Referenced(B, v, s) THEN H[s] ELSE <<>>]

\* The abstract content: the byte sequence the calls on bufs[1] describe.
\* It is followed while bufs[1] is the only handle onto its storage;
\* Untracked once the caller uses a sub-buffer.
Untracked == <<-1>>

AbsAfter(a, l) ==
    IF a = Untracked \/ l.buf # 1 THEN a
    ELSE IF l.op \in AppendOps \cup {"ReadInto", "SubBuffer"} THEN a \o l.p
    ELSE IF l.op \in PrependOps THEN l.p \o a
    ELSE IF l.op = "Reset" THEN <<>>
    ELSE a

\* The notes `start` and `parentReset` are kept on a sub-buffer only while it
\* is a window of its parent: once either has moved to another array they
\* say nothing about the sub-buffer any more.
Noted(B) ==
    IF Len(B) = 2 /\ B[2].store # B[1].store
    THEN [B EXCEPT ![2].start = 0, ![2].parentReset = FALSE]
    ELSE B

\* A write (append or prepend family) on handle h with result r.
Wrote(op, h, p, r) ==
    /\ InBounds(r)
    /\ bufs' = Noted([bufs EXCEPT ![h] = r.buf])
    /\ heap' = Collect(r.heap, bufs', view)
    /\ last' = Last(op, h, p, Len(p), r.buf.store # bufs[h].store, NilErr)
    /\ abs' = AbsAfter(abs, last')
    /\ UNCHANGED <<view, race>>

\* ---------------------------------------------------------------- initial
\* Two goroutines that call CopyBytes on bufs[1] with no synchronisation.
\* race.thr[t] is where thread t is in its call (pc), the bytes p it appends
\* and the array buf its ensureCapacity has made; race.serial says that so
\* far no call began while the other thread's call was under way.  NoRace:
\* there is one caller only.
Threads == {1, 2}
RacePayloads == {<<1>>, <<0, 1>>}
NoRace == [thr |-> <<>>, serial |-> TRUE]

\* What the caller passes to the constructor: nil, or a slice that is the
\* whole of an array of its own (array 1).
SuppliedSlices ==
    {[store |-> NilStore, bytes |-> <<>>]}
    \cup {[store |-> 1, bytes |-> s] : s \in Supplied}

Init ==
    /\ \E a \in SuppliedSlices :
          /\ heap = [t \in Stores |-> IF t = 1 THEN a.bytes ELSE <<>>]
          /\ bufs = <<NewResizableBuffer(a.store, Len(a.bytes))>>
    /\ view = NoView
    /\ last = Last("New", 1, <<>>, 0, FALSE, NilErr)
    /\ abs = <<>>
    /\ race = NoRace

\* ---------------------------------------------------------------- actions
\* The constructed buffer in the hands of the two threads.
InitRace ==
    /\ \E a \in SuppliedSlices :
          /\ heap = [t \in Stores |-> IF t = 1 THEN a.bytes ELSE <<>>]
          /\ bufs = <<NewResizableBuffer(a.store, Len(a.bytes))>>
    /\ view = NoView
    /\ last = Unlogged
    /\ abs = Untracked
    /\ \E p1 \in RacePayloads, p2 \in RacePayloads :
          race = [thr |-> [t \in Threads |->
                             [pc |-> "call", p |-> IF t = 1 THEN p1 ELSE p2,
                              buf |-> NilStore]],
                  serial |-> TRUE]

At(t, pc) == race.thr[t].pc = pc

Goto(t, pc) == race' = [race EXCEPT !.thr[t].pc = pc]

\* An array is live while the buffer or a thread's local buf refers to it.
RaceLive(B, R, s) == B[1].store = s \/ \E t \in Threads : R.thr[t].buf = s

RaceNewStore ==
    CHOOSE s \in Stores :
        /\ ~RaceLive(bufs, race, s)
        /\ \A t \in Stores : t < s => RaceLive(bufs, race, t)

RaceCollect(H, B, R) == [s \in Stores |-> IF RaceLive(B, R, s) THEN H[s] ELSE <<>>]

\* ensureCapacity, line 26: if len(b.buffer)-b.offset < n
RaceCheck(t) ==
    /\ At(t, "call")
    /\ race' = [race EXCEPT
                 !.thr[t].pc = IF needsGrow(bufs[1], Len(race.thr[t].p))
                               THEN "make" ELSE "copy",
                 !.serial = @ /\ \A u \in Threads \ {t} :
                                    race.thr[u].pc \in {"call", "done"}]
    /\ UNCHANGED <<heap, bufs, view, last, abs>>

\* ensureCapacity, lines 27-28: buf := make([]byte, n+len(b.buffer));
\* copy(buf, b.buffer)
RaceMake(t) ==
    /\ At(t, "make")
    /\ LET n == Len(race.thr[t].p)
           f == RaceNewStore
       IN  /\ heap' = [heap EXCEPT ![f] =
                          CopyAt(Zeros(grownLen(bufs[1].len, n)), 0,
                                 Buffer(heap, bufs[1]))]
           /\ race' = [race EXCEPT !.thr[t].pc = "assign", !.thr[t].buf = f]
    /\ UNCHANGED <<bufs, view, last, abs>>

\* ensureCapacity, line 29: b.buffer = buf
RaceAssign(t) ==
    /\ At(t, "assign")
    /\ LET f == race.thr[t].buf
       IN  /\ bufs' = [bufs EXCEPT ![1].store = f, ![1].base = 0,
                                    ![1].len = Len(heap[f])]
           /\ race' = [race EXCEPT !.thr[t].pc = "copy", !.thr[t].buf = NilStore]
           /\ heap' = RaceCollect(heap, bufs', race')
    /\ UNCHANGED <<view, last, abs>>

\* CopyBytes, line 36: copy(b.buffer[b.offset:], p); the slice expression
\* panics when the cursor is beyond the buffer.
RaceCopy(t) ==
    /\ At(t, "copy")
    /\ IF bufs[1].offset > bufs[1].len
       THEN /\ Goto(t, "panic")
            /\ UNCHANGED heap
       ELSE /\ heap' = WithBuffer(heap, bufs[1],
                           CopyAt(Buffer(heap, bufs[1]), bufs[1].offset,
                                  race.thr[t].p))
            /\ Goto(t, "advance")
    /\ UNCHANGED <<bufs, view, last, abs>>

\* CopyBytes, line 37: b.offset += len(p)
RaceAdvance(t) ==
    /\ At(t, "advance")
    /\ bufs' = [bufs EXCEPT ![1].offset = @ + Len(race.thr[t].p)]
    /\ Goto(t, "done")
    /\ UNCHANGED <<heap, view, last, abs>>

DoCopyBytes(h) ==
    \E p \in Payloads :
        Wrote("CopyBytes", h, p, CopyBytes(heap, bufs[h], p, NewStore))

DoCopyString(h) ==
    \E p \in Strings :
        Wrote("CopyString", h, p, CopyString(heap, bufs[h], p, NewStore))

DoByte(h) ==
    \E bt \in Vals :
        Wrote("Byte", h, <<bt>>, Byte(heap, bufs[h], bt, NewStore))

DoCRLF(h) ==
    Wrote("CRLF", h, <<CR, LF>>, CRLF(heap, bufs[h], NewStore))

DoUint16(h) ==
    \E v \in U16Vals, le \in BOOLEAN :
        Wrote("Uint16", h, PutUint16(v, le), Uint16(heap, bufs[h], v, le, NewStore))

DoPrependBytes(h) ==
    \E p \in Payloads :
        Wrote("PrependBytes", h, p, PrependBytes(heap, bufs[h], p, NewStore))

DoPrependByte(h) ==
    \E bt \in Vals :
        Wrote("PrependByte", h, <<bt>>, PrependByte(heap, bufs[h], bt, NewStore))

DoPrependString(h) ==
    \E p \in Strings :
        Wrote("PrependString", h, p, PrependString(heap, bufs[h], p, NewStore))

DoPrependUint16(h) ==
    \E v \in U16Vals, le \in BOOLEAN :
        Wrote("PrependUint16", h, PutUint16(v, le),
              PrependUint16(heap, bufs[h], v, le, NewStore))

\* The slices s[i:j] of the slice s the caller holds.
Subslices ==
    UNION {{[store |-> view.store, base |-> view.base + i, len |-> j - i] :
               j \in i..view.len} : i \in 0..view.len}

\* b.CopyBytes(s[i:j]) for the slice s the caller holds; logged with the
\* bytes s[i:j] holds when the call is made.
DoCopyBytesOwn(h) ==
    /\ view # NoView
    /\ \E v \in Subslices :
          Wrote("CopyBytes", h, SliceOf(heap, v.store, v.base, v.len),
                CopyBytesOf(heap, bufs[h], v, NewStore))

\* b.PrependBytes(s[i:j]) for the slice s the caller holds.
DoPrependBytesOwn(h) ==
    /\ view # NoView
    /\ \E v \in Subslices :
          Wrote("PrependBytes", h, SliceOf(heap, v.store, v.base, v.len),
                PrependBytesOf(heap, bufs[h], v, NewStore))

\* s := b.Bytes(), and the caller holds s from now on.
DoBytes(h) ==
    /\ view' = [buf |-> h, store |-> bufs[h].store, base |-> bufs[h].base,
                len |-> bufs[h].offset]
    /\ heap' = Collect(heap, bufs, view')
    /\ last' = Last("Bytes", h, <<>>, 0, FALSE, NilErr)
    /\ UNCHANGED <<bufs, abs, race>>

\* Mutant: a Reset of a sub-buffer also puts its parent's cursor back to 0,
\* as if the two shared one cursor.
DoResetShared(h) ==
    \E zeroOut \in BOOLEAN :
        LET r == Reset(heap, bufs[h], zeroOut)
        IN  /\ bufs' = Noted([g \in Handles |->
                          IF g = h THEN r.buf
                          ELSE IF h = 1 THEN [bufs[g] EXCEPT !.parentReset = TRUE]
                          ELSE [bufs[g] EXCEPT !.offset = 0]])
            /\ view' = IF view.buf = h THEN NoView ELSE view
            /\ heap' = Collect(r.heap, bufs', view')
            /\ last' = Last("Reset", h, Bytes(heap, bufs[h]),
                            IF zeroOut THEN 1 ELSE 0, FALSE, NilErr)
            /\ abs' = AbsAfter(abs, last')
            /\ UNCHANGED race

\* b.Reset(zeroOut).  A slice Bytes or ReadInto returned stops being valid
\* (the caller lets go of it) and a sub-buffer of b notes that its parent
\* was reset.
DoReset(h) ==
    \E zeroOut \in BOOLEAN :
        LET r == Reset(heap, bufs[h], zeroOut)
        IN  /\ bufs' = Noted([g \in Handles |->
                          IF g = h THEN r.buf
                          ELSE IF h = 1 THEN [bufs[g] EXCEPT !.parentReset = TRUE]
                          ELSE bufs[g]])
            /\ view' = IF view.buf = h THEN NoView ELSE view
            /\ heap' = Collect(r.heap, bufs', view')
            /\ last' = Last("Reset", h, Bytes(heap, bufs[h]),
                            IF zeroOut THEN 1 ELSE 0, FALSE, NilErr)
            /\ abs' = AbsAfter(abs, last')
            /\ UNCHANGED race

\* chunk, err := b.ReadInto(r, maxSize).  With hold the caller holds chunk
\* from now on, otherwise it keeps the slice it held.
ReadReturned(h, hold, maxSize, src, r) ==
    /\ InBounds(r)
    /\ bufs' = Noted([bufs EXCEPT ![h] = r.buf])
    /\ view' = IF hold
               THEN [buf |-> h, store |-> r.chunk.store,
                     base |-> r.chunk.base, len |-> r.chunk.len]
               ELSE view
    /\ heap' = Collect(r.heap, bufs', view')
    /\ last' = Last("ReadInto", h, Read(src, r.asked[1]).bytes, maxSize,
                    r.buf.store # bufs[h].store, r.err)
    /\ abs' = AbsAfter(abs, last')
    /\ UNCHANGED race

DoReadInto(h, hold) ==
    \E maxSize \in ReadSizes, src \in Sources :
        ReadReturned(h, hold, maxSize, src,
                     ReadInto(heap, bufs[h], maxSize, src, NewStore))

\* sub := b.SubBuffer(length).  With keep the caller uses sub from now on as
\* bufs[2] (and drops the sub-buffer it had), otherwise it drops sub.  The
\* call appends to the content the bytes that were in the window.
SubBufferReturned(h, keep, length, r) ==
    /\ InBounds(r)
    /\ bufs' = IF keep
               THEN <<r.buf, [r.sub EXCEPT !.start = bufs[h].offset]>>
               ELSE Noted([bufs EXCEPT ![h] = r.buf])
    /\ heap' = Collect(r.heap, bufs', view)
    /\ last' = Last("SubBuffer", h, Buffer(r.heap, r.sub), length,
                    r.buf.store # bufs[h].store, NilErr)
    /\ abs' = IF keep THEN Untracked ELSE AbsAfter(abs, last')
    /\ UNCHANGED <<view, race>>

DoSubBuffer(h, keep) ==
    \E length \in SubLens :
        SubBufferReturned(h, keep, length,
                          SubBuffer(heap, bufs[h], length, NewStore))

\* A write with an encoder on bufs[1], with result r.
Encoded(op, p, r) ==
    /\ r.buf.len <= MaxEncCap
    /\ bufs' = [bufs EXCEPT ![1] = r.buf]
    /\ heap' = Collect(r.heap, bufs', view)
    /\ last' = Last(op, 1, p, Len(p), r.buf.store # bufs[1].store, NilErr)
    /\ abs' = AbsAfter(abs, last')
    /\ UNCHANGED <<view, race>>

EncUint16 ==
    \E v \in Enc16Vals, le \in BOOLEAN :
        Encoded("Uint16", PutUint16(v, le), Uint16(heap, bufs[1], v, le, NewStore))

EncUint32 ==
    \E v \in U32Vals, le \in BOOLEAN :
        Encoded("Uint32", PutUint32(v, le), Uint32(heap, bufs[1], v, le, NewStore))

EncUint64 ==
    \E v \in U64Vals, le \in BOOLEAN :
        Encoded("Uint64", PutUint64(v, le), Uint64(heap, bufs[1], v, le, NewStore))

EncInt16 ==
    \E v \in Int16Vals, le \in BOOLEAN :
        LET r == Int16(heap, bufs[1], v, le, NewStore)
        IN  Encoded("Int16", SubSeq(Bytes(r.heap, r.buf), bufs[1].offset + 1,
                                    r.buf.offset), r)

EncInt32 ==
    \E v \in Int32Vals, le \in BOOLEAN :
        LET r == Int32(heap, bufs[1], v, le, NewStore)
        IN  Encoded("Int32", SubSeq(Bytes(r.heap, r.buf), bufs[1].offset + 1,
                                    r.buf.offset), r)

EncInt64 ==
    \E v \in Int64Vals, le \in BOOLEAN :
        LET r == Int64(heap, bufs[1], v, le, NewStore)
        IN  Encoded("Int64", SubSeq(Bytes(r.heap, r.buf), bufs[1].offset + 1,
                                    r.buf.offset), r)

\* One buffer and every call of the API on it.  The caller holds on to no
\* slice and uses no sub-buffer it takes.
Next ==
    \/ DoCopyBytes(1)
    \/ DoCopyString(1)
    \/ DoByte(1)
    \/ DoCRLF(1)
    \/ DoUint16(1)
    \/ DoPrependBytes(1)
    \/ DoPrependByte(1)
    \/ DoPrependString(1)
    \/ DoPrependUint16(1)
    \/ DoReset(1)
    \/ DoReadInto(1, FALSE)
    \/ DoSubBuffer(1, FALSE)

Spec == Init /\ [][Next]_vars

\* One buffer, and the caller holds on to slices Bytes and ReadInto return.
NextView ==
    \/ DoCopyBytes(1)
    \/ DoByte(1)
    \/ DoPrependBytes(1)
    \/ DoPrependByte(1)
    \/ DoBytes(1)
    \/ DoReset(1)
    \/ \E hold \in BOOLEAN : DoReadInto(1, hold)
    \/ DoSubBuffer(1, FALSE)

SpecView == Init /\ [][NextView]_vars

\* One buffer, and the caller passes slices of what Bytes returned back to
\* CopyBytes and PrependBytes.
NextOwn ==
    \/ DoCopyBytes(1)
    \/ DoByte(1)
    \/ DoBytes(1)
    \/ DoReset(1)
    \/ DoCopyBytesOwn(1)
    \/ DoPrependBytesOwn(1)

SpecOwn == Init /\ [][NextOwn]_vars

\* A buffer and the sub-buffer taken from it, with calls on both.
NextSub ==
    \/ \E h \in Handles : DoCopyBytes(h)
    \/ \E h \in Handles : DoByte(h)
    \/ \E h \in Handles : DoPrependBytes(h)
    \/ \E h \in Handles : DoPrependByte(h)
    \/ \E h \in Handles : DoReset(h)
    \/ \E h \in Handles : DoReadInto(h, FALSE)
    \/ DoSubBuffer(1, TRUE)
    \/ \E h \in Handles : DoSubBuffer(h, FALSE)

SpecSub == Init /\ [][NextSub]_vars

\* One buffer written with the fixed-width encoders.
NextEnc ==
    \/ EncUint16
    \/ EncUint32
    \/ EncUint64
    \/ EncInt16
    \/ EncInt32
    \/ EncInt64

SpecEnc == Init /\ [][NextEnc]_vars

\* Two threads appending to one buffer, their steps interleaved freely.
NextRace ==
    \/ \E t \in Threads : RaceCheck(t)
    \/ \E t \in Threads : RaceMake(t)
    \/ \E t \in Threads : RaceAssign(t)
    \/ \E t \in Threads : RaceCopy(t)
    \/ \E t \in Threads : RaceAdvance(t)

SpecRace == InitRace /\ [][NextRace]_vars

TypeOK ==
    /\ Len(bufs) \in 1..2
    /\ \A h \in Handles : bufs[h].store \in Stores

\* ------------------------------------------------------------ the claims
HasSub == Len(bufs) = 2

\* The sub-buffer still is the window it was taken as: neither it nor its
\* parent has reallocated since.
Aliased == HasSub /\ bufs[2].store = bufs[1].store

CursorOK(b) == 0 <= b.offset /\ b.offset <= b.len

\* The handles left behind by one call, on handle b, of each write that the
\* behaviours with a sub-buffer do not take as a step.
AfterOtherWrite(H, b, f) ==
    {CopyString(H, b, p, f).buf : p \in Strings}
    \cup {CRLF(H, b, f).buf}
    \cup {Uint16(H, b, v, le, f).buf : v \in U16Vals, le \in BOOLEAN}
    \cup {PrependString(H, b, p, f).buf : p \in Strings}
    \cup {PrependUint16(H, b, v, le, f).buf : v \in U16Vals, le \in BOOLEAN}

\* C1: in every state reachable by CopyBytes, Byte, PrependBytes,
\* PrependByte, Reset, ReadInto and SubBuffer every buffer, parent or
\* sub-buffer, has 0 <= cursor <= capacity, and so has the buffer that a call
\* of any other write (CopyString, CRLF, Uint16, PrependString,
\* PrependUint16) leaves behind.
C1_CursorWithinCapacity ==
    \A h \in Handles :
        /\ CursorOK(bufs[h])
        /\ \A b \in AfterOtherWrite(heap, bufs[h], NewStore) : CursorOK(b)

\* A parent and a sub-buffer that each have written up to their capacity.
C1_Witness ==
    /\ Aliased
    /\ bufs[2].len = 2 /\ bufs[2].offset = 2
    /\ bufs[1].len = 3 /\ bufs[1].offset = 3

\* C2: an append-family write of the bytes p leaves Bytes() equal to the
\* Bytes() before followed by p and Len() larger by len(p), with or without
\* growth.
C2_AppendKeepsContent ==
    [][last'.op \in AppendOps =>
        /\ Bytes(heap', bufs'[1]) = Bytes(heap, bufs[1]) \o last'.p
        /\ bufs'[1].offset = bufs[1].offset + Len(last'.p)]_vars

\* An append of two bytes that grew a buffer holding one byte.
C2_Witness ==
    /\ last.op = "CopyBytes" /\ last.grew /\ Len(last.p) = 2
    /\ bufs[1].offset = 3
    /\ Bytes(heap, bufs[1])[1] = 1

\* C3: a prepend-family write of the bytes p leaves Bytes() equal to p
\* followed by the Bytes() before and Len() larger by len(p), on the growth
\* path and on the in-place shift path.
C3_PrependKeepsContent ==
    [][last'.op \in PrependOps =>
        /\ Bytes(heap', bufs'[1]) = last'.p \o Bytes(heap, bufs[1])
        /\ bufs'[1].offset = bufs[1].offset + Len(last'.p)]_vars

\* A prepend of one byte shifted two bytes of content in place.
C3_Witness ==
    /\ last.op = "PrependByte" /\ ~last.grew
    /\ bufs[1].offset = 3
    /\ Bytes(heap, bufs[1]) = <<0, 1, 1>>

\* C4: Bytes() is the abstract byte sequence: empty at first, each appended
\* value added at its tail, each prepended value at its head, emptied by
\* Reset.
C4_ContentIsAbstractSequence == abs = Bytes(heap, bufs[1])

\* A prepend that grew the buffer, onto content of two bytes.
C4_Witness ==
    /\ last.op \in PrependOps /\ last.grew /\ Len(last.p) = 1
    /\ Len(abs) = 3

\* The bytes seen through the slice the caller holds, in heap H.
ViewBytes(H) == SliceOf(H, view.store, view.base, view.len)

\* C5 (as claimed): while the caller holds a slice from Bytes() or ReadInto()
\* and no Reset has been called, no call changes the bytes seen through it.
C5_SliceStableUntilReset ==
    [][(view # NoView /\ view' = view) => ViewBytes(heap') = ViewBytes(heap)]_vars

\* C6 (as claimed): while the parent is neither Reset nor reallocated, a call
\* on the parent that fits in its spare capacity does not change the bytes
\* the sub-buffer has written.
C6_SubBufferStableUntilReset ==
    [][(/\ Aliased /\ ~bufs[2].parentReset
        /\ Len(bufs') = 2 /\ bufs'[2] = bufs[2]
        /\ bufs'[1].store = bufs[1].store)
       => Bytes(heap', bufs'[2]) = Bytes(heap, bufs[2])]_vars

\* C7: an append of n bytes that fits (C - cursor >= n) keeps the capacity
\* and the backing array; one that does not moves the buffer to a new array
\* of capacity exactly n + C whose first C bytes are the old buffer's, into
\* which the n bytes are then written.
C7_AppendGrowth ==
    [][last'.op \in AppendOps =>
        LET b == bufs[1]
            n == Len(last'.p)
            e == ensureCapacity(heap, b, n, NewStore)
        IN  IF b.len - b.offset >= n
            THEN /\ bufs'[1].store = b.store
                 /\ bufs'[1].base = b.base
                 /\ bufs'[1].len = b.len
            ELSE /\ bufs'[1].store # b.store
                 /\ bufs'[1].len = n + b.len
                 /\ Len(Buffer(e.heap, e.buf)) = n + b.len
                 /\ SubSeq(Buffer(e.heap, e.buf), 1, b.len) = Buffer(heap, b)
                 /\ Buffer(heap', bufs'[1])
                      = CopyAt(Buffer(e.heap, e.buf), b.offset, last'.p)]_vars

\* An append of two bytes grew a buffer of capacity 1 that had one spare byte.
C7_Witness ==
    /\ last.op = "CopyString" /\ last.grew
    /\ bufs[1].len = 3 /\ bufs[1].offset = 2

\* C8 (as claimed): a write of n bytes that triggers growth adds no more
\* capacity than the write needs beyond the existing capacity.
C8_GrowthNoMoreThanNeeded ==
    [][(last'.op \in AppendOps \cup PrependOps /\ last'.grew) =>
        bufs'[1].len - bufs[1].len
            <= (bufs[1].offset + Len(last'.p)) - bufs[1].len]_vars

\* C8 (amended): a write of n bytes that triggers growth adds exactly n bytes
\* of capacity, which is what the write needs beyond the existing capacity
\* plus the spare capacity; it is no more than the need only when the buffer
\* was full.
C8_GrowthIsWriteSize ==
    [][(last'.op \in AppendOps \cup PrependOps /\ last'.grew) =>
        LET n == Len(last'.p)
            need == (bufs[1].offset + n) - bufs[1].len
            spare == bufs[1].len - bufs[1].offset
        IN  /\ 0 <= spare /\ spare < n
            /\ bufs'[1].len - bufs[1].len = n
            /\ bufs'[1].len - bufs[1].len = need + spare
            /\ (bufs'[1].len - bufs[1].len <= need) <=> (spare = 0)]_vars

\* A two-byte encoder grew a buffer of capacity 1 that had one spare byte:
\* the capacity added is 2, the need beyond the capacity was 1.
C8_Witness ==
    /\ last.op = "Uint16" /\ last.grew
    /\ bufs[1].len = 3 /\ bufs[1].offset = 2

\* C9: SubBuffer(length) with length >= 0 on a parent with cursor p grows the
\* parent as an append of length bytes would, moves the parent's cursor to
\* p + length and returns a buffer with cursor 0 and capacity length whose
\* storage is the parent's storage[p : p+length], inside the parent's
\* capacity.
C9_SubBufferWindow ==
    [][\A length \in SubLens :
        LET b == bufs[1]
            r == SubBuffer(heap, b, length, NewStore)
            e == ensureCapacity(heap, b, length, NewStore)
        IN  (/\ length >= 0
             /\ last'.op = "SubBuffer" /\ last'.n = length
             /\ Len(bufs') = 2)
            => /\ bufs'[1].store = e.buf.store
               /\ bufs'[1].len = e.buf.len
               /\ bufs'[1].len = IF b.len - b.offset < length
                                 THEN length + b.len ELSE b.len
               /\ bufs'[1].offset = b.offset + length
               /\ bufs'[2].offset = 0
               /\ bufs'[2].len = length
               /\ bufs'[2].store = bufs'[1].store
               /\ bufs'[2].base = bufs'[1].base + b.offset
               /\ Buffer(heap', bufs'[2])
                    = SubSeq(Buffer(heap', bufs'[1]), b.offset + 1, b.offset + length)
               /\ SubSeq(Buffer(heap', bufs'[1]), 1, b.offset) = Bytes(heap, b)
               /\ b.offset + length <= bufs'[1].len]_vars

\* SubBuffer(2) grew a full parent of capacity 1 and returned the new tail.
C9_Witness ==
    /\ last.op = "SubBuffer" /\ last.n = 2 /\ last.grew
    /\ Aliased
    /\ bufs[1].len = 3 /\ bufs[1].offset = 3
    /\ bufs[2].base = 1 /\ bufs[2].len = 2 /\ bufs[2].offset = 0

\* The bytes written through the sub-buffer are the bytes the parent holds
\* from the window's start on, and are part of the parent's Bytes().
SubBytesInParent ==
    \A i \in 1..bufs[2].offset :
        /\ bufs[2].start + i <= bufs[1].offset
        /\ Buffer(heap, bufs[2])[i] = Bytes(heap, bufs[1])[bufs[2].start + i]

C11_NegativeLengthTakesSpare ==
    [][(/\ last'.op = "SubBuffer" /\ last'.n < 0
        /\ Len(bufs') = 2)
       => LET b == bufs[1]
          IN  /\ bufs'[1].store = b.store
              /\ bufs'[1].base = b.base
              /\ bufs'[1].len = b.len
              /\ bufs'[1].offset = b.len
              /\ Buffer(heap', bufs'[1]) = Buffer(heap, b)
              /\ bufs'[2].offset = 0
              /\ bufs'[2].len = b.len - b.offset
              /\ bufs'[2].store = b.store
              /\ bufs'[2].base = b.base + b.offset]_vars

\* SubBuffer(-1) on a parent of capacity 3 holding one byte returned the two
\* spare bytes.
C11_Witness ==
    /\ last.op = "SubBuffer" /\ last.n < 0 /\ ~last.grew
    /\ Aliased
    /\ bufs[1].len = 3 /\ bufs[1].offset = 3
    /\ bufs[2].base = 1 /\ bufs[2].len = 2 /\ bufs[2].offset = 0

\* The fields of the struct behind a handle: its slice and its cursor.
Fields(b) == <<b.store, b.base, b.len, b.offset>>

\* The step is a call of SubBuffer on the parent whose result the caller
\* keeps as its sub-buffer.
TakesSubBuffer ==
    \E length \in SubLens :
        LET r == SubBuffer(heap, bufs[1], length, NewStore)
        IN  /\ Len(bufs') = 2
            /\ Fields(bufs'[1]) = Fields(r.buf)
            /\ Fields(bufs'[2]) = Fields(r.sub)

\* C12: a step that changes the sub-buffer (an append, prepend, Reset,
\* ReadInto or nested SubBuffer on it) and is not the parent handing out a
\* new sub-buffer leaves the parent's cursor, capacity and backing array as
\* they were.
C12_SubBufferLeavesParentFields ==
    [][(/\ HasSub /\ Len(bufs') = 2
        /\ Fields(bufs'[2]) # Fields(bufs[2])
        /\ ~TakesSubBuffer)
       => Fields(bufs'[1]) = Fields(bufs[1])]_vars

\* The sub-buffer, taken as an empty window behind the parent's one byte, has
\* grown onto an array of its own and written two bytes; the parent still has
\* capacity 1 and cursor 1.
C12_Witness ==
    /\ HasSub /\ ~Aliased
    /\ bufs[2].len = 2 /\ bufs[2].offset = 2
    /\ bufs[1].len = 1 /\ bufs[1].offset = 1

\* C13: Reset(true) called with cursor c sets every byte of storage[0:c] to
\* 0, leaves every byte at index >= c as it was, and sets the cursor to 0.
C13_ResetTrueZeroesWritten ==
    [][(last'.op = "Reset" /\ last'.n = 1)
       => LET b == bufs[1]
              c == b.offset
          IN  /\ last'.p = Bytes(heap, b)
              /\ bufs'[1].offset = 0
              /\ Len(Buffer(heap', bufs'[1])) = b.len
              /\ \A i \in 1..b.len :
                    Buffer(heap', bufs'[1])[i]
                        = IF i <= c THEN 0 ELSE Buffer(heap, b)[i]]_vars

\* Reset(true) dropped the content <<1>> of a buffer whose second byte, from
\* an earlier use, is 1: the first byte is now 0, the second still 1.
C13_Witness ==
    /\ last.op = "Reset" /\ last.n = 1 /\ last.p = <<1>>
    /\ Buffer(heap, bufs[1]) = <<0, 1>>
    /\ bufs[1].offset = 0

\* C14: Reset with either flag keeps the capacity and the backing array and
\* sets the cursor to 0; Reset(false) leaves every byte of the storage as it
\* was; an append that fits made right after a Reset writes its bytes from
\* index 0 of the same array.
C14_ResetKeepsStorage ==
    [][/\ last'.op = "Reset"
          => /\ bufs'[1].store = bufs[1].store
             /\ bufs'[1].base = bufs[1].base
             /\ bufs'[1].len = bufs[1].len
             /\ bufs'[1].offset = 0
             /\ last'.n = 0 => Buffer(heap', bufs'[1]) = Buffer(heap, bufs[1])
       /\ (/\ last.op = "Reset" /\ last'.op \in AppendOps
           /\ Len(last'.p) <= bufs[1].len)
          => /\ bufs'[1].store = bufs[1].store
             /\ bufs'[1].len = bufs[1].len
             /\ SubSeq(Buffer(heap', bufs'[1]), 1, Len(last'.p)) = last'.p
             /\ Bytes(heap', bufs'[1]) = last'.p]_vars

\* Reset(false) dropped the content <<1, 0, 1>>, which is still in the
\* storage.
C14_Witness ==
    /\ last.op = "Reset" /\ last.n = 0 /\ last.p = <<1, 0, 1>>
    /\ Buffer(heap, bufs[1]) = <<1, 0, 1>>
    /\ bufs[1].offset = 0

\* The step is a call of ReadInto on bufs[1], with the maxSize logged, that
\* read from the reader src.
ReadGave(src, r) ==
    /\ last'.op = "ReadInto"
    /\ last'.err = r.err
    /\ last'.p = Read(src, r.asked[1]).bytes
    /\ Fields(bufs'[1]) = Fields(r.buf)
    /\ heap' = Collect(r.heap, bufs', view')

ReadsFrom(src) == ReadGave(src, ReadInto(heap, bufs[1], last'.n, src, NewStore))

\* The lengths of the slices the call in the step passed to src's Read.
AskedOf(src) == ReadInto(heap, bufs[1], last'.n, src, NewStore).asked

\* The readers the step can have read from.
ReadersOfStep == {src \in Sources : ReadsFrom(src)}

\* There are readers in M, and each was asked once for m bytes and gave the
\* k bytes p, all it had up to m.
ReadOnceFrom(M, m, k, p) ==
    /\ M # {}
    /\ \A src \in M : /\ AskedOf(src) = <<m>>
                       /\ k = Min(m, Len(src.data))
                       /\ p = SubSeq(src.data, 1, k)

\* There are readers in M, and each was asked once, gave the k bytes p and
\* reported the error err.
ErrorFrom(M, err, k, p) ==
    /\ M # {}
    /\ \A src \in M : /\ src.err # NilErr
                       /\ err = src.err
                       /\ Len(AskedOf(src)) = 1
                       /\ p = SubSeq(src.data, 1, k)

\* The bytes of the slice ReadInto returned in the step: the k bytes of the
\* storage from the old cursor on.
ChunkAfter(k) ==
    SliceOf(heap', bufs'[1].store, bufs'[1].base + bufs[1].offset, k)

\* C15: ReadInto(r, m) with m > 0 grows the buffer as an append of m bytes
\* would, calls r.Read once with the m bytes storage[cursor : cursor+m], and
\* for the k <= m bytes the reader produced advances the cursor by k and
\* returns them as storage[old cursor : old cursor+k]; the content before the
\* old cursor is unchanged.
C15_BoundedRead ==
    [][(last'.op = "ReadInto" /\ last'.n > 0)
       => LET b == bufs[1]
              m == last'.n
              k == Len(last'.p)
              e == ensureCapacity(heap, b, m, NewStore)
          IN  /\ ReadOnceFrom(ReadersOfStep, m, k, last'.p)
              /\ bufs'[1].len = IF b.len - b.offset < m THEN m + b.len ELSE b.len
              /\ bufs'[1].store = e.buf.store
              /\ (bufs'[1].store = b.store) <=> (b.len - b.offset >= m)
              /\ bufs'[1].len - b.offset >= m
              /\ 0 <= k /\ k <= m
              /\ bufs'[1].offset = b.offset + k
              /\ ChunkAfter(k) = last'.p
              /\ SubSeq(Buffer(heap', bufs'[1]), 1, b.offset) = Bytes(heap, b)]_vars

\* ReadInto(r, 2) from a reader with three bytes grew a buffer holding one
\* byte and read two of them.
C15_Witness ==
    /\ last.op = "ReadInto" /\ last.n = 2 /\ last.grew
    /\ last.p = <<1, 0>>
    /\ bufs[1].len = 3 /\ bufs[1].offset = 3

\* C16: ReadInto(r, m) with m <= 0 keeps the capacity and the backing array,
\* calls r.Read once with the spare region storage[cursor : C], so reads at
\* most C - cursor bytes, and with no spare capacity reads nothing and leaves
\* the cursor where it was.
C16_UnboundReadTakesSpare ==
    [][(last'.op = "ReadInto" /\ last'.n <= 0)
       => LET b == bufs[1]
              k == Len(last'.p)
              spare == b.len - b.offset
          IN  /\ ReadOnceFrom(ReadersOfStep, spare, k, last'.p)
              /\ bufs'[1].store = b.store
              /\ bufs'[1].base = b.base
              /\ bufs'[1].len = b.len
              /\ ~last'.grew
              /\ k <= spare
              /\ bufs'[1].offset = b.offset + k
              /\ ChunkAfter(k) = last'.p
              /\ spare = 0 => (k = 0 /\ bufs'[1].offset = b.offset)
              /\ SubSeq(Buffer(heap', bufs'[1]), 1, b.offset) = Bytes(heap, b)]_vars

\* ReadInto(r, -1) from a reader with three bytes, on a buffer of capacity 3
\* holding one byte, read the two bytes there was room for.
C16_Witness ==
    /\ last.op = "ReadInto" /\ last.n = -1 /\ ~last.grew
    /\ last.p = <<1, 0>>
    /\ bufs[1].len = 3 /\ bufs[1].offset = 3

\* C17: when the reader reports an error, ReadInto returns that error value
\* itself together with the k bytes read before it (possibly none), the
\* cursor has advanced by k, the content before the old cursor is unchanged
\* and r.Read was called once.
C17_ReadErrorPassedOn ==
    [][(last'.op = "ReadInto" /\ last'.err # NilErr)
       => LET b == bufs[1]
              k == Len(last'.p)
          IN  /\ ErrorFrom(ReadersOfStep, last'.err, k, last'.p)
              /\ bufs'[1].offset = b.offset + k
              /\ ChunkAfter(k) = last'.p
              /\ SubSeq(Buffer(heap', bufs'[1]), 1, b.offset) = Bytes(heap, b)]_vars

\* A reader gave one byte and an error: the byte is in the buffer behind the
\* two it held, and the error was returned.
C17_Witness ==
    /\ last.op = "ReadInto" /\ last.err = "EOF"
    /\ last.p = <<1>>
    /\ bufs[1].offset = 3

\* C18: a buffer created from nil has capacity 0, cursor 0 and a storage that
\* is not nil; one created from the caller's bytes has their length as
\* capacity, cursor 0 and empty Bytes(), and its storage is the caller's
\* slice itself; the first append, if it fits, overwrites the supplied bytes
\* from index 0 on the same array.
C18_ConstructedBuffer ==
    /\ [](last.op = "New"
          => /\ bufs[1].offset = 0
             /\ Bytes(heap, bufs[1]) = <<>>
             /\ bufs[1].store # NilStore
             /\ \E a \in SuppliedSlices :
                   /\ bufs[1] = NewResizableBuffer(a.store, Len(a.bytes))
                   /\ bufs[1].len = Len(a.bytes)
                   /\ Buffer(heap, bufs[1]) = a.bytes
                   /\ a.store # NilStore
                        => (bufs[1].store = a.store /\ bufs[1].base = 0))
    /\ [][(/\ last.op = "New" /\ last'.op \in AppendOps
           /\ Len(last'.p) <= bufs[1].len)
          => /\ bufs'[1].store = bufs[1].store
             /\ bufs'[1].len = bufs[1].len
             /\ bufs'[1].offset = Len(last'.p)
             /\ Buffer(heap', bufs'[1])
                  = CopyAt(Buffer(heap, bufs[1]), 0, last'.p)]_vars

\* A buffer just created from three supplied bytes.
C18_Witness ==
    /\ last.op = "New"
    /\ bufs[1].store = 1 /\ bufs[1].len = 3 /\ bufs[1].offset = 0
    /\ Buffer(heap, bufs[1]) = <<0, 0, 0>>

\* Both threads' calls are over.
RaceDone == \A t \in Threads : race.thr[t].pc \in {"done", "panic"}

\* The two appends in either order.
RaceConcats ==
    {race.thr[1].p \o race.thr[2].p, race.thr[2].p \o race.thr[1].p}

\* C19: the buffer is not thread-safe.  Two appends that do not overlap in
\* time (one call is over before the other begins, as external
\* synchronisation makes them) leave the concatenation of the two writes, in
\* the order of the calls; the witness is the state the claim speaks of,
\* reached by interleaved calls, where the content is neither concatenation.
C19_SerialAppendsConcatenate ==
    (RaceDone /\ race.serial)
    => /\ \A t \in Threads : race.thr[t].pc = "done"
       /\ CursorOK(bufs[1])
       /\ Bytes(heap, bufs[1]) \in RaceConcats

\* Both calls have returned, their steps interleaved, and the content is not
\* the two writes one after the other in either order.
C19_Witness ==
    /\ RaceDone /\ ~race.serial
    /\ \A t \in Threads : race.thr[t].pc = "done"
    /\ CursorOK(bufs[1])
    /\ Bytes(heap, bufs[1]) \notin RaceConcats

Reverse(s) == [i \in 1..Len(s) |-> s[Len(s) + 1 - i]]

IsByte(x) == x \in 0..255

\* The 16-bit limbs, least significant first, of the value whose bytes, least
\* significant first, are bs.
LimbsOf(bs) == [j \in 1..(Len(bs) \div 2) |-> bs[2 * j - 1] + 256 * bs[2 * j]]

\* The bytes are the w-byte little-endian and big-endian forms of the value
\* with limbs v: every one a byte, the little-endian ones the base-256 digits
\* of the value from the least significant on (so that they make up the value
\* again), the big-endian ones the same in reverse.
EncodesValue(w, v, le, be) ==
    /\ Len(le) = w /\ Len(be) = w
    /\ \A i \in 1..w : IsByte(le[i]) /\ IsByte(be[i])
    /\ LimbsOf(le) = v
    /\ \A i \in 0..(w - 1) : be[w - i] = le[i + 1]
    /\ be = Reverse(le)

\* Limbs at the edges of a byte, and the values of w bytes made of them.
EdgeLimbs == {0, 255, 256, 258, 65535}
EdgeVals(w) == [1..(w \div 2) -> EdgeLimbs]

\* C20: for the widths 2, 4 and 8 the append encoder adds exactly w bytes to
\* the content, the little-endian form having byte (v div 256^i) mod 256 at
\* position i and the big-endian form having it at position w-1-i; 0x0102 is
\* <<2, 1>> little-endian and <<1, 2>> big-endian.
C20_EncodersWriteValueBytes ==
    /\ \A v \in EdgeLimbs :
          /\ EncodesValue(2, <<v>>, PutUint16(v, TRUE), PutUint16(v, FALSE))
          /\ \A i \in 0..1 :
                /\ PutUint16(v, TRUE)[i + 1] = (v \div 256^i) % 256
                /\ PutUint16(v, FALSE)[2 - i] = (v \div 256^i) % 256
    /\ PutUint16(258, TRUE) = <<2, 1>>
    /\ PutUint16(258, FALSE) = <<1, 2>>
    /\ \A v \in EdgeVals(4) :
          EncodesValue(4, v, PutUint32(v, TRUE), PutUint32(v, FALSE))
    /\ \A v \in EdgeVals(8) :
          EncodesValue(8, v, PutUint64(v, TRUE), PutUint64(v, FALSE))
    /\ \A le \in BOOLEAN :
          LET b == bufs[1]
              Appends(r, bs) ==
                  /\ r.buf.offset = b.offset + Len(bs)
                  /\ Bytes(r.heap, r.buf) = Bytes(heap, b) \o bs
          IN  /\ \A v \in Enc16Vals :
                    Appends(Uint16(heap, b, v, le, NewStore), PutUint16(v, le))
              /\ \A v \in U32Vals :
                    Appends(Uint32(heap, b, v, le, NewStore), PutUint32(v, le))
              /\ \A v \in U64Vals :
                    Appends(Uint64(heap, b, v, le, NewStore), PutUint64(v, le))

\* Uint64(0x0102030405060708, false) on an empty buffer.
C20_Witness ==
    /\ last.op = "Uint64" /\ last.grew
    /\ Bytes(heap, bufs[1]) = <<1, 2, 3, 4, 5, 6, 7, 8>>

\* The limbs of v mod 2^w for a signed v of w bits: 2^w is added to a
\* negative value, which adds 2^16 to its most significant limb.
Mod2w(v) == IF v[Len(v)] < 0 THEN [v EXCEPT ![Len(v)] = @ + 65536] ELSE v

\* The limbs of -v - 1 for a negative v.
NegMinusOne(v) ==
    [j \in 1..Len(v) |-> IF j = Len(v) THEN -v[j] - 1 ELSE 65535 - v[j]]

\* The reference encoding of a signed value in w bytes, least significant
\* byte first: the digits of v if v >= 0, the complemented digits of -v - 1
\* if v < 0.
TwosComplement(w, v) ==
    IF v[Len(v)] < 0
    THEN [i \in 1..w |-> 255 - ByteOf(NegMinusOne(v), i - 1)]
    ELSE [i \in 1..w |-> ByteOf(v, i - 1)]

\* Most significant limbs at the edges of the signed range, and the signed
\* values of w bytes made of them.
LowLimbs == {0, 258, 65535}
TopLimbs == {-32768, -256, -1, 0, 1, 32767}
SignedEdgeVals(w) ==
    {lo \o <<t>> : lo \in [1..((w \div 2) - 1) -> LowLimbs], t \in TopLimbs}

\* C21: for the widths 16, 32 and 64 bits and both byte orders the signed
\* encoder leaves the buffer exactly as the unsigned encoder of that width
\* does for v mod 2^w, and the bytes it writes are the two's-complement form
\* of v; -1 is written as bytes 255 only, 1 as a single 1 and zeros.
C21_SignedAsUnsigned ==
    /\ \A w \in {2, 4, 8} : \A v \in SignedEdgeVals(w) :
          /\ ToUnsigned(v) = Mod2w(v)
          /\ \A j \in 1..Len(v) : ToUnsigned(v)[j] \in 0..65535
          /\ PutUint(w, ToUnsigned(v), TRUE) = TwosComplement(w, v)
          /\ PutUint(w, ToUnsigned(v), FALSE) = Reverse(TwosComplement(w, v))
    /\ \A v \in {-32768, -256, -1, 0, 1, 32767}, le \in BOOLEAN :
          /\ ToUnsigned(<<v>>)[1] = (IF v < 0 THEN v + 65536 ELSE v)
          /\ PutUint16(ToUnsigned(<<v>>)[1], le)
               = (IF le THEN TwosComplement(2, <<v>>)
                  ELSE Reverse(TwosComplement(2, <<v>>)))
    /\ \A le \in BOOLEAN :
          LET b == bufs[1]
          IN  /\ \A v \in Int16Vals :
                    Int16(heap, b, v, le, NewStore)
                      = Uint16(heap, b, Mod2w(<<v>>)[1], le, NewStore)
              /\ \A v \in Int32Vals :
                    Int32(heap, b, v, le, NewStore)
                      = Uint32(heap, b, Mod2w(v), le, NewStore)
              /\ \A v \in Int64Vals :
                    Int64(heap, b, v, le, NewStore)
                      = Uint64(heap, b, Mod2w(v), le, NewStore)
              /\ Bytes(Int16(heap, b, -1, le, NewStore).heap,
                       Int16(heap, b, -1, le, NewStore).buf)
                   = Bytes(heap, b) \o <<255, 255>>
              /\ Bytes(Int32(heap, b, <<1, 0>>, le, NewStore).heap,
                       Int32(heap, b, <<1, 0>>, le, NewStore).buf)
                   = Bytes(heap, b) \o (IF le THEN <<1, 0, 0, 0>> ELSE <<0, 0, 0, 1>>)

\* Int32(-2^31, true) appended after Int16(-2, false) and Int16(-2, true).
C21_Witness ==
    /\ last.op = "Int32" /\ last.grew
    /\ Bytes(heap, bufs[1]) = <<255, 254, 254, 255, 0, 0, 0, 128>>

\* The first n and the last n bytes of the content the call with result r
\* left.
HeadOf(r, n) == SubSeq(Bytes(r.heap, r.buf), 1, n)

TailOf(r, n) == SubSeq(Bytes(r.heap, r.buf), r.buf.offset - n + 1, r.buf.offset)

\* The prepend with result pre put at the head the bytes w that the append
\* with result app put at the tail; called on an empty buffer (cursor e = 0)
\* the two leave the same content.
Counterparts(e, pre, app, w) ==
    /\ pre.buf.offset = e + Len(w)
    /\ app.buf.offset = e + Len(w)
    /\ HeadOf(pre, Len(w)) = w
    /\ TailOf(app, Len(w)) = w
    /\ e = 0 => /\ Bytes(pre.heap, pre.buf) = Bytes(app.heap, app.buf)
                /\ Bytes(pre.heap, pre.buf) = w

\* C22: from every state, and for every value and byte order, PrependBytes,
\* PrependString, PrependByte, PrependUint16/32/64 put at the head of the
\* content the bytes that CopyBytes, CopyString, Byte, Uint16/32/64 put at
\* its tail, and on an empty buffer the two calls leave identical Bytes().
C22_PrependMirrorsAppend ==
    LET b == bufs[1]
        f == NewStore
    IN  /\ \A p \in Payloads :
              Counterparts(b.offset, PrependBytes(heap, b, p, f),
                           CopyBytes(heap, b, p, f), p)
        /\ \A p \in Strings :
              Counterparts(b.offset, PrependString(heap, b, p, f),
                           CopyString(heap, b, p, f), p)
        /\ \A v \in Vals :
              Counterparts(b.offset, PrependByte(heap, b, v, f),
                           Byte(heap, b, v, f), <<v>>)
        /\ \A le \in BOOLEAN :
              /\ \A v \in U16Vals \cup Enc16Vals :
                    Counterparts(b.offset, PrependUint16(heap, b, v, le, f),
                                 Uint16(heap, b, v, le, f), PutUint16(v, le))
              /\ \A v \in U32Vals :
                    Counterparts(b.offset, PrependUint32(heap, b, v, le, f),
                                 Uint32(heap, b, v, le, f), PutUint32(v, le))
              /\ \A v \in U64Vals :
                    Counterparts(b.offset, PrependUint64(heap, b, v, le, f),
                                 Uint64(heap, b, v, le, f), PutUint64(v, le))

\* PrependUint16(1, true) on a buffer emptied by Reset that kept its bytes.
C22_Witness ==
    /\ last.op = "PrependUint16" /\ ~last.grew
    /\ bufs[1].offset = 2 /\ bufs[1].len = 3
    /\ Buffer(heap, bufs[1]) = <<1, 0, 1>>

\* What the line-terminator methods of the buffer leave behind when called
\* on b: the package has one such method, CRLF.
LineTerminatorOps(H, b, f) == {CRLF(H, b, f)}

\* The call with result r added the bytes CR, LF at the tail of b's content.
AppendedCRLF(H, b, r) ==
    /\ r.buf.offset = b.offset + 2
    /\ Bytes(r.heap, r.buf) = Bytes(H, b) \o <<13, 10>>

\* The call with result r added the bytes CR, LF at the head of b's content.
PrependedCRLF(H, b, r) ==
    /\ r.buf.offset = b.offset + 2
    /\ Bytes(r.heap, r.buf) = <<13, 10>> \o Bytes(H, b)

\* C23 (as claimed): the line terminator can be appended and can be
\* prepended: in every state one of the line-terminator methods adds the
\* bytes 13, 10 at the tail, and one adds them at the head, each advancing the
\* cursor by 2.
C23_CRLFAppendsAndPrepends ==
    /\ \E r \in LineTerminatorOps(heap, bufs[1], NewStore) :
          AppendedCRLF(heap, bufs[1], r)
    /\ \E r \in LineTerminatorOps(heap, bufs[1], NewStore) :
          PrependedCRLF(heap, bufs[1], r)

\* C23 (amended): the line terminator has an append form only.  Every
\* line-terminator method adds the bytes 13, 10 in that order at the tail and
\* advances the cursor by 2, and so does every CRLF step.
C23_CRLFAppendsOnly ==
    /\ [](\A r \in LineTerminatorOps(heap, bufs[1], NewStore) :
              AppendedCRLF(heap, bufs[1], r))
    /\ [][last'.op = "CRLF"
          => /\ last'.p = <<13, 10>>
             /\ bufs'[1].offset = bufs[1].offset + 2
             /\ Bytes(heap', bufs'[1]) = Bytes(heap, bufs[1]) \o <<13, 10>>]_vars

\* CRLF() called on content <<1>>: the terminator is at the tail, not at the
\* head.
C23_Witness ==
    /\ last.op = "CRLF"
    /\ Bytes(heap, bufs[1]) = <<1, 13, 10>>

\* C24: a prepend of n bytes on a buffer of capacity C that has no room
\* (C - cursor < n) moves it to a new array of capacity exactly n + C that
\* holds the whole old buffer from index n on; one that has room keeps the
\* capacity and the array and moves the whole buffer right by n in place, so
\* that the n bytes that fall off the end all lay beyond the cursor.  Either
\* way the n new bytes are then at the front.
C24_PrependShiftsWholeStore ==
    [][last'.op \in PrependOps =>
        LET b == bufs[1]
            n == Len(last'.p)
            C == b.len
            old == Buffer(heap, b)
            new == Buffer(heap', bufs'[1])
        IN  /\ SubSeq(new, 1, n) = last'.p
            /\ IF C - b.offset < n
               THEN /\ last'.grew
                    /\ bufs'[1].store # b.store
                    /\ bufs'[1].len = n + C
                    /\ SubSeq(new, n + 1, n + C) = old
               ELSE /\ ~last'.grew
                    /\ bufs'[1].store = b.store
                    /\ bufs'[1].base = b.base
                    /\ bufs'[1].len = C
                    /\ \A i \in 1..(C - n) : new[n + i] = old[i]
                    /\ \A i \in (C - n + 1)..C : i > b.offset]_vars

\* An in-place prepend of one byte to empty content in a buffer of three
\* bytes whose left-over bytes were moved along with it.
C24_Witness ==
    /\ last.op = "PrependByte" /\ ~last.grew
    /\ bufs[1].len = 3 /\ bufs[1].offset = 1
    /\ Buffer(heap, bufs[1]) = <<0, 1, 1>>

\* The step is a CopyBytes that added the bytes its argument held when it was
\* called after the content there was.
CopiedVerbatim ==
    last'.op = "CopyBytes"
    => /\ Bytes(heap', bufs'[1]) = Bytes(heap, bufs[1]) \o last'.p
       /\ bufs'[1].offset = bufs[1].offset + Len(last'.p)

\* The step is a PrependBytes that added the bytes its argument held when it
\* was called before the content there was.
PrependedVerbatim ==
    last'.op = "PrependBytes"
    => /\ Bytes(heap', bufs'[1]) = last'.p \o Bytes(heap, bufs[1])
       /\ bufs'[1].offset = bufs[1].offset + Len(last'.p)

\* The append half of C25: it holds.
CopyBytesOwnVerbatim == [][CopiedVerbatim]_vars

\* C25 (as claimed): CopyBytes(v) and PrependBytes(v) add v verbatim also
\* when v is a slice of what Bytes() returned: the bytes added are those v
\* held at the moment of the call, after (CopyBytes) or before (PrependBytes)
\* the content there was, which is kept.
C25_OwnBytesVerbatim == [][CopiedVerbatim /\ PrependedVerbatim]_vars

\* The step leaves the parent handle as it was and is not the parent handing
\* out a new sub-buffer: a call on the sub-buffer, or one on the parent that
\* did nothing.
SubBufferStep ==
    /\ HasSub /\ Len(bufs') = 2
    /\ Fields(bufs'[1]) = Fields(bufs[1])
    /\ ~TakesSubBuffer

\* Index i of the parent's array lies in the sub-buffer's window.
InWindow(i) ==
    /\ Aliased
    /\ i > bufs[2].base /\ i <= bufs[2].base + bufs[2].len

\* What one call, on handle b, of each write that the behaviours with a
\* sub-buffer do not take as a step leaves behind.
OtherWriteResults(H, b, f) ==
    {CopyString(H, b, p, f) : p \in Strings}
    \cup {CRLF(H, b, f)}
    \cup {Uint16(H, b, v, le, f) : v \in U16Vals, le \in BOOLEAN}
    \cup {PrependString(H, b, p, f) : p \in Strings}
    \cup {PrependUint16(H, b, v, le, f) : v \in U16Vals, le \in BOOLEAN}

\* The call on the sub-buffer with result r changed no byte of the parent's
\* array outside the window, and moved the sub-buffer off that array if it
\* left the cursor beyond the window.
KeptToWindow(r) ==
    LET s == bufs[1].store
    IN  /\ Len(r.heap[s]) = Len(heap[s])
        /\ \A i \in 1..Len(heap[s]) : ~InWindow(i) => r.heap[s][i] = heap[s][i]
        /\ r.buf.store = s => (Aliased /\ r.buf.offset <= bufs[2].len)
        /\ r.buf.store # s => r.heap[s] = heap[s]

\* C26: a call on the sub-buffer changes no byte of the parent's array
\* outside the sub-buffer's window; a call that leaves the sub-buffer in the
\* parent's array leaves its cursor within the window, so a write that does
\* not fit moves it, and it moves to an array nothing referred to; from then
\* on its calls leave the whole of the parent's array unchanged.  The same
\* holds of one call of each other write from every reachable state.
C26_SubBufferStaysInWindow ==
    /\ [](HasSub => \A r \in OtherWriteResults(heap, bufs[2], NewStore) :
                        KeptToWindow(r))
    /\ [][SubBufferStep =>
           LET s == bufs[1].store
           IN  /\ Len(heap'[s]) = Len(heap[s])
               /\ \A i \in 1..Len(heap[s]) : ~InWindow(i) => heap'[s][i] = heap[s][i]
               /\ (Aliased /\ bufs'[2].store = s)
                    => /\ bufs'[2].base = bufs[2].base
                       /\ bufs'[2].len = bufs[2].len
                       /\ bufs'[2].offset <= bufs[2].len
               /\ bufs'[2].store # bufs[2].store
                    => /\ bufs'[2].store # s
                       /\ ~Referenced(bufs, view, bufs'[2].store)
                       /\ heap'[s] = heap[s]
               /\ ~Aliased => (bufs'[2].store # s /\ heap'[s] = heap[s])]_vars

\* The sub-buffer, a window of one byte, wrote 0 into it and then 1, which
\* did not fit: it is on its own array, and the parent's array holds the 0.
C26_Witness ==
    /\ HasSub /\ ~Aliased
    /\ Bytes(heap, bufs[2]) = <<0, 1>>
    /\ bufs[1].offset = 1
    /\ Buffer(heap, bufs[1]) = <<0>>

\* All bytes of s are zero.
AllZero(s) == \A i \in 1..Len(s) : s[i] = 0

\* The caller holds a slice of an array the buffer has grown away from.
HoldsReplaced == view # NoView /\ view.store # bufs[1].store

\* The step is Reset(true), and when it returns the bytes the buffer had
\* written (they are its content, abs) are zero in its storage.
ClearsCurrent ==
    (last'.op = "Reset" /\ last'.n = 1)
    => LET r == Reset(heap, bufs[1], TRUE)
       IN  /\ last'.p = abs
           /\ Len(abs) = bufs[1].offset
           /\ AllZero(SubSeq(Buffer(r.heap, r.buf), 1, bufs[1].offset))
           /\ Fields(bufs'[1]) = Fields(r.buf)
           /\ Buffer(heap', bufs'[1]) = Buffer(r.heap, r.buf)
           /\ (view # NoView /\ ~HoldsReplaced) => AllZero(ViewBytes(r.heap))

\* C27 (as claimed): when Reset(true) returns no byte written since the
\* previous Reset is left, neither in the buffer's storage nor in an array the
\* buffer has grown away from since (seen here through the slice the caller
\* got from Bytes() or ReadInto before the growth).
C27_ResetTrueLeavesNothing ==
    [][/\ ClearsCurrent
       /\ (last'.op = "Reset" /\ last'.n = 1 /\ HoldsReplaced)
            => AllZero(ViewBytes(Reset(heap, bufs[1], TRUE).heap))]_vars

\* C27 (amended): when Reset(true) returns no byte written since the previous
\* Reset is left in the buffer's current storage; the bytes in an array the
\* buffer has grown away from are left as they are.
C27_ResetTrueClearsCurrentOnly ==
    [][/\ ClearsCurrent
       /\ (last'.op = "Reset" /\ last'.n = 1 /\ HoldsReplaced)
            => ViewBytes(Reset(heap, bufs[1], TRUE).heap) = ViewBytes(heap)]_vars

\* Reset(true) has cleared the three bytes the buffer had written, the last
\* of them after a growth.
C27_Witness ==
    /\ last.op = "Reset" /\ last.n = 1
    /\ last.p = <<1, 1, 1>>
    /\ bufs[1].store # 1
    /\ Buffer(heap, bufs[1]) = <<0, 0, 0>>

\* What CopyBytes, CopyString, PrependBytes and PrependString leave behind
\* when called on b with nothing to write (nil and empty slices alike have
\* length 0).
EmptyWrites(H, b, f) ==
    {CopyBytes(H, b, <<>>, f), CopyString(H, b, <<>>, f),
     PrependBytes(H, b, <<>>, f), PrependString(H, b, <<>>, f)}

\* C28: from every state, a full buffer included, CopyBytes, CopyString,
\* PrependBytes and PrependString of an empty value leave the cursor, the
\* capacity, the backing array and every byte stored as they were, and so does
\* every such step.
C28_EmptyWriteIsNoOp ==
    /\ [](\A r \in EmptyWrites(heap, bufs[1], NewStore) :
              r.buf = bufs[1] /\ r.heap = heap)
    /\ [][(/\ last'.op \in {"CopyBytes", "CopyString", "PrependBytes", "PrependString"}
           /\ last'.p = <<>>)
          => /\ bufs' = bufs
             /\ heap' = heap
             /\ ~last'.grew]_vars

\* PrependBytes of nothing on a buffer that is full with three bytes.
C28_Witness ==
    /\ last.op = "PrependBytes" /\ last.p = <<>>
    /\ bufs[1].offset = 3 /\ bufs[1].len = 3
    /\ Bytes(heap, bufs[1]) = <<1, 0, 1>>

\* C29: no call makes the capacity smaller.  A call that makes it larger is
\* an append or prepend of n bytes, a ReadInto with maxSize n or a SubBuffer
\* of length n for which the spare capacity was less than n, and it makes the
\* capacity larger by exactly n; Reset never changes it.
C29_CapacityNeverDecreases ==
    [][/\ bufs'[1].len >= bufs[1].len
       /\ last'.op = "Reset" => bufs'[1].len = bufs[1].len
       /\ bufs'[1].len > bufs[1].len
            => /\ last'.op \in AppendOps \cup PrependOps \cup {"ReadInto", "SubBuffer"}
               /\ last'.op \in AppendOps \cup PrependOps => last'.n = Len(last'.p)
               /\ last'.grew
               /\ last'.n > 0
               /\ bufs[1].len - bufs[1].offset < last'.n
               /\ bufs'[1].len = bufs[1].len + last'.n
       /\ last'.grew => bufs'[1].len > bufs[1].len]_vars

\* SubBuffer(2) on a buffer of capacity 1 with no room made the capacity 3.
C29_Witness ==
    /\ last.op = "SubBuffer" /\ last.grew /\ last.n = 2
    /\ bufs[1].len = 3 /\ bufs[1].offset = 3

====
